---- MODULE Spec2Model ----
(***************************************************************************)
(* Model of the Watchdog driver of src/Watchdog/Watchdog.cpp (ST_NUCLEO    *)
(* branch, the one the file compiles: line 127 defines ST_NUCLEO, line 126 *)
(* leaves LPC commented out).                                              *)
(*                                                                         *)
(* A timeout is a C float.  It is represented by the integer n with value  *)
(* n / Den seconds, Den = 2^12, so every timeout of the model is a binary  *)
(* fraction that a float holds exactly.  A float product is represented by *)
(* the pair <<ip, fp>> of its magnitude ip + fp / Den, rounded to the 24   *)
(* significant bits of a float as the multiplication of the code rounds.   *)
(***************************************************************************)
EXTENDS Integers, Sequences, FiniteSets, TLC

\* ------------------------------------------------------------------------
\* Constants of the code.

\* #define LsiFreq (45000)
LsiFreq == 45000

\* The prescalers of the if / else-if chain, in the order the chain tries
\* them; the last one is the else branch.
Prescalers == <<4, 8, 16, 32, 64, 128, 256>>

\* The literal the chain compares the count with: 0x7FF for prescaler 4,
\* 0xFF0 for 8 .. 128.
Bound(p) == IF p = 4 THEN 2047 ELSE 4080

\* PrescalerCode: the selector constant the chain assigns for a prescaler.
\* The constants are named by the code and defined by the platform headers,
\* so the model keeps the names.
PrescalerCode(p) ==
    CASE p = 4   -> "IWDG_PRESCALER_4"
      [] p = 8   -> "IWDG_PRESCALER_8"
      [] p = 16  -> "IWDG_PRESCALER_16"
      [] p = 32  -> "IWDG_PRESCALER_32"
      [] p = 64  -> "IWDG_PRESCALER_64"
      [] p = 128 -> "IWDG_PRESCALER_128"
      [] OTHER   -> "IWDG_PRESCALER_256"

\* The values written to the key register IWDG->KR.
KeyUnlock == 21845     \* 0x5555
KeyReload == 43690     \* 0xAAAA
KeyStart  == 52428     \* 0xCCCC

\* ------------------------------------------------------------------------
\* Float arithmetic of Configure.

Den == 2^12

Abs(n) == IF n < 0 THEN 0 - n ELSE n

\* floor(log2(x)) for 1 <= x < 2^31.
Log2(x) == CHOOSE k \in 0..30 : x \div (2^k) = 1

\* Round the magnitude ip + fp / Den to a float: 24 significant bits, round
\* to nearest, ties to even.
RoundF32(ip, fp) ==
    IF ip < Den THEN <<ip, fp>>
    ELSE LET k == Log2(ip) IN
         IF k <= 23
         THEN LET q   == 2^(k - 11)
                  r   == fp % q
                  lo  == fp - r
                  odd == IF q = Den THEN ip % 2 = 1 ELSE (lo \div q) % 2 = 1
                  up  == (2 * r > q) \/ (2 * r = q /\ odd)
                  f   == IF up THEN lo + q ELSE lo
              IN  IF f = Den THEN <<ip + 1, 0>> ELSE <<ip, f>>
         ELSE LET Q   == 2^(k - 23)
                  r   == ip % Q
                  lo  == ip - r
                  odd == (lo \div Q) % 2 = 1
                  up  == (2 * r > Q) \/ (2 * r = Q /\ (fp > 0 \/ odd))
              IN  <<IF up THEN lo + Q ELSE lo, 0>>

\* timeout * c for an int c: the int is converted to float (exactly, for
\* the quotients of the code) and the product is rounded to float.
\* The timeouts of the model keep the product below 2^31.
\* The result is [neg, ip, fp]: sign and magnitude ip + fp / Den.
FloatMul(n, c) ==
    LET a  == Abs(n)
        lo == (a % Den) * c
        m  == RoundF32(((a \div Den) * c) + (lo \div Den), lo % Den)
    IN  [neg |-> n < 0 /\ (m[1] > 0 \/ m[2] > 0), ip |-> m[1], fp |-> m[2]]

\* (timeout * (LsiFreq/p)) < bound, with LsiFreq/p the int division of C.
Below(n, p) ==
    LET x == FloatMul(n, LsiFreq \div p) IN x.neg \/ x.ip < Bound(p)

\* The if / else-if chain: the first prescaler whose comparison holds, and
\* 256 when none does.
RECURSIVE ChainFrom(_, _)
ChainFrom(n, i) ==
    IF i = Len(Prescalers) THEN Prescalers[i]
    ELSE IF Below(n, Prescalers[i]) THEN Prescalers[i]
    ELSE ChainFrom(n, i + 1)

ChoosePrescaler(n) == ChainFrom(n, 1)

\* (uint32_t)(timeout * (LsiFreq/Prescaler)): the float is truncated toward
\* zero.  The uint32_t is the record [hi, lo] of its 16-bit halves.  A float
\* of -1 or less is out of the range of uint32_t and the conversion is
\* undefined: the set holds the outcomes of the builds, 0 (a saturating
\* conversion instruction, a folded constant), the two's complement wrap
\* 2^32 - ip (a conversion through a signed 64-bit integer), and 2^32 - 1
\* (the out-of-range result of an unsigned conversion instruction).
Uint32Outcomes(x) ==
    IF ~x.neg \/ x.ip = 0
    THEN {[hi |-> x.ip \div (2^16), lo |-> x.ip % (2^16)]}
    ELSE {[hi |-> 0, lo |-> 0],
          [hi |-> (2^16 - 1) - ((x.ip - 1) \div (2^16)),
           lo |-> (2^16 - 1) - ((x.ip - 1) % (2^16))],
          [hi |-> 2^16 - 1, lo |-> 2^16 - 1]}

\* The locals of one Configure call for the conversion outcome u:
\* ReloadValue is a uint16_t, so the assignment keeps the low 16 bits.
\* Calculated_timeout is (Prescaler * ReloadValue) / LsiFreq seconds; the
\* record keeps its numerator, a number of LsiFreq cycles.
Locals(n, u) ==
    LET p == ChoosePrescaler(n) IN
    [timeout       |-> n,
     Prescaler     |-> p,
     PrescalerCode |-> PrescalerCode(p),
     converted     |-> u,
     ReloadValue   |-> u.lo,
     Calculated    |-> p * u.lo]

\* All the outcomes of the computation of Configure(timeout).
Computations(n) ==
    {Locals(n, u) :
        u \in Uint32Outcomes(FloatMul(n, LsiFreq \div ChoosePrescaler(n)))}

\* ------------------------------------------------------------------------
\* Register writes of the driver.

Write(reg, val) == [reg |-> reg, val |-> val]

\* A Service that feeds the watchdog of the other platform (the LPC branch:
\* WDFEED = 0xAA, WDFEED = 0x55) instead of writing the key register.
ServiceWritesLpc == <<Write("WDFEED", 170), Write("WDFEED", 85)>>

\* The writes of the body of Service: IWDG->KR = 0xAAAA.
ServiceWrites == <<Write("KR", KeyReload)>>

\* A Configure that programs PR and RLR before it unlocks them.
ConfigureWritesUnlockLate(c) ==
    <<Write("PR", c.PrescalerCode),
      Write("RLR", c.ReloadValue),
      Write("KR", KeyUnlock),
      Write("KR", KeyReload),
      Write("KR", KeyStart)>> \o ServiceWrites

\* The writes of Configure for the locals c, in program order; the call of
\* Service() that ends Configure appends the writes of Service.
ConfigureWrites(c) ==
    <<Write("KR", KeyUnlock),
      Write("PR", c.PrescalerCode),
      Write("RLR", c.ReloadValue),
      Write("KR", KeyReload),
      Write("KR", KeyStart)>> \o ServiceWrites

\* ------------------------------------------------------------------------
\* The watchdog peripheral the driver writes to, and the reset it causes.
\* The peripheral is hardware: a key register, a prescaler selector, a
\* 12-bit reload register and a down counter clocked at LsiFreq / prescaler.

CounterMax == 2^12 - 1

IwdgReset ==
    [unlocked |-> FALSE, started |-> FALSE,
     PR |-> "IWDG_PRESCALER_4", RLR |-> CounterMax, CNT |-> CounterMax]

\* The divider a selector stands for.
Divider(code) ==
    CHOOSE p \in {Prescalers[i] : i \in 1..Len(Prescalers)} :
        PrescalerCode(p) = code

\* One register write.  The unlock key opens PR and RLR for writing and any
\* other key closes them; the reload key loads the counter from RLR; the
\* start key starts the countdown.  RLR keeps 12 bits.
HwWrite(hw, w) ==
    CASE w.reg = "KR" /\ w.val = KeyUnlock -> [hw EXCEPT !.unlocked = TRUE]
      [] w.reg = "KR" /\ w.val = KeyReload ->
            [hw EXCEPT !.unlocked = FALSE, !.CNT = hw.RLR]
      [] w.reg = "KR" /\ w.val = KeyStart ->
            [hw EXCEPT !.unlocked = FALSE, !.started = TRUE]
      [] w.reg = "PR" /\ hw.unlocked -> [hw EXCEPT !.PR = w.val]
      [] w.reg = "RLR" /\ hw.unlocked ->
            [hw EXCEPT !.RLR = w.val % (CounterMax + 1)]
      [] OTHER -> hw

RECURSIVE HwRun(_, _)
HwRun(hw, ws) ==
    IF ws = <<>> THEN hw ELSE HwRun(HwWrite(hw, Head(ws)), Tail(ws))

\* Whether a sequence of writes reloads the counter.
Kicks(ws) == \E i \in 1..Len(ws) : ws[i] = Write("KR", KeyReload)

\* ------------------------------------------------------------------------
\* Inputs.

\* The timeouts within Window units (of 1 / Den s) of the point where a
\* comparison of the chain changes its answer.
Window == 2
\* Quarters of a second, from -MaxNegQuarter / 4 s to MaxQuarter / 4 s.
MaxQuarter == 48
MaxNegQuarter == 4
\* Whole seconds 2^0 .. 2^MaxExp.
MaxExp == 9
\* Service calls counted since the last Configure (the count saturates).
MaxService == 2

Threshold(p) == (Bound(p) * Den) \div (LsiFreq \div p)

Timeouts ==
    {Threshold(Prescalers[i]) + d :
        i \in 1..(Len(Prescalers) - 1), d \in (0 - Window)..Window}
    \cup {k * (Den \div 4) : k \in (0 - MaxNegQuarter)..MaxQuarter}
    \cup {(2^j) * Den : j \in 0..MaxExp}

\* Computations, computed once for every timeout of the model.
ComputationsOf == [n \in Timeouts |-> Computations(n)]

\* ------------------------------------------------------------------------
\* State.

VARIABLES
    pc,          \* "boot": after a reset, no Watchdog object; "run": constructed
    wdreset,     \* Watchdog::wdreset
    resetCause,  \* what caused the last system reset (the status bit of the
                 \* hardware says whether it was the watchdog)
    iwdg,        \* the peripheral: unlocked, started, PR, RLR, CNT
    op,          \* the last step taken
    writes,      \* the register writes of the last step, in order
    call,        \* the locals of the last Configure call
    ret,         \* the value the last WatchdogCausedReset() returned
    gap,         \* LsiFreq cycles elapsed since the counter was last reloaded
    nService,    \* Service calls since the last Configure, up to MaxService
    pending,     \* timeouts still to be passed to Configure (SpecCfg)
    prev         \* the locals of the Configure call before the last (SpecCfg)

vars == <<pc, wdreset, resetCause, iwdg, op, writes, call, ret, gap,
          nService, pending, prev>>

NoCall ==
    [timeout |-> 0, Prescaler |-> 0, PrescalerCode |-> "",
     converted |-> [hi |-> 0, lo |-> 0], ReloadValue |-> 0, Calculated |-> 0]

\* The countdown has run out: the reset is due.
Expired == iwdg.started /\ iwdg.CNT = 0

Init ==
    /\ pc = "boot"
    /\ wdreset = FALSE
    /\ resetCause = "poweron"
    /\ iwdg = IwdgReset
    /\ op = "none"
    /\ writes = <<>>
    /\ call = NoCall
    /\ ret = FALSE
    /\ gap = 0
    /\ nService = 0
    /\ pending = <<>>
    /\ prev = NoCall

\* ------------------------------------------------------------------------
\* The driver.

\* Watchdog::Watchdog(): the read of the reset flag is commented out and the
\* constructor stores false.
Construct ==
    /\ pc = "boot"
    /\ pc' = "run"
    /\ wdreset' = FALSE
    /\ op' = "Watchdog"
    /\ writes' = <<>>
    /\ call' = NoCall
    /\ gap' = 0
    /\ nService' = 0
    /\ UNCHANGED <<resetCause, iwdg, ret, pending, prev>>

\* Watchdog::Configure(timeout), the call of Service() that ends it included.
Configure(n) ==
    /\ pc = "run"
    /\ ~Expired
    /\ \E c \in ComputationsOf[n] :
          /\ call' = c
          /\ writes' = ConfigureWrites(c)
    /\ iwdg' = HwRun(iwdg, writes')
    /\ gap' = IF Kicks(writes') THEN 0 ELSE gap
    /\ op' = "Configure"
    /\ nService' = 0
    /\ UNCHANGED <<pc, wdreset, resetCause, ret>>

\* Watchdog::Service()
Service ==
    /\ pc = "run"
    /\ ~Expired
    /\ writes' = ServiceWrites
    /\ iwdg' = HwRun(iwdg, writes')
    /\ gap' = IF Kicks(writes') THEN 0 ELSE gap
    /\ op' = "Service"
    /\ nService' = IF nService < MaxService THEN nService + 1 ELSE nService
    /\ UNCHANGED <<pc, wdreset, resetCause, call, ret, pending, prev>>

\* A WatchdogCausedReset that assigns the flag it should only read
\* (return wdreset = true).
WatchdogCausedResetAssigns ==
    /\ pc = "run"
    /\ ~Expired
    /\ wdreset' = TRUE
    /\ ret' = TRUE
    /\ op' = "WatchdogCausedReset"
    /\ writes' = <<>>
    /\ UNCHANGED <<pc, resetCause, iwdg, call, gap, nService, pending, prev>>

\* Watchdog::WatchdogCausedReset()
WatchdogCausedReset ==
    /\ pc = "run"
    /\ ~Expired
    /\ ret' = wdreset
    /\ op' = "WatchdogCausedReset"
    /\ writes' = <<>>
    /\ UNCHANGED <<pc, wdreset, resetCause, iwdg, call, gap, nService,
                   pending, prev>>

\* ------------------------------------------------------------------------
\* The environment: time and resets.

\* d ticks of the prescaled clock pass while the countdown runs.
Elapse(d) ==
    /\ pc = "run"
    /\ iwdg.started
    /\ d \in 1..iwdg.CNT
    /\ iwdg' = [iwdg EXCEPT !.CNT = iwdg.CNT - d]
    /\ gap' = gap + d * Divider(iwdg.PR)
    /\ op' = "Elapse"
    /\ writes' = <<>>
    /\ UNCHANGED <<pc, wdreset, resetCause, call, ret, nService,
                   pending, prev>>

\* The time that passes in one step: all that is left of the countdown but
\* one tick, or all of it.
ElapseSteps == {iwdg.CNT - 1, iwdg.CNT}

\* The countdown reached zero: the watchdog resets the system.  call and gap
\* stay as a record of the run that ended.
WatchdogReset ==
    /\ pc = "run"
    /\ Expired
    /\ pc' = "boot"
    /\ resetCause' = "watchdog"
    /\ iwdg' = IwdgReset
    /\ op' = "WatchdogReset"
    /\ writes' = <<>>
    /\ wdreset' = FALSE
    /\ nService' = 0
    /\ UNCHANGED <<call, ret, gap, pending, prev>>

\* A reset from elsewhere (the reset pin, a power cycle).
ExternalReset ==
    /\ pc = "run"
    /\ pc' = "boot"
    /\ resetCause' = "external"
    /\ iwdg' = IwdgReset
    /\ op' = "ExternalReset"
    /\ writes' = <<>>
    /\ wdreset' = FALSE
    /\ call' = NoCall
    /\ gap' = 0
    /\ nService' = 0
    /\ UNCHANGED <<ret, pending, prev>>

ConfigureAny ==
    \E n \in Timeouts : Configure(n) /\ UNCHANGED <<pending, prev>>

ElapseAny == \E d \in ElapseSteps : Elapse(d)

Next ==
    \/ Construct
    \/ ConfigureAny
    \/ Service
    \/ WatchdogCausedReset
    \/ ElapseAny
    \/ WatchdogReset
    \/ ExternalReset

Spec == Init /\ [][Next]_vars

\* ------------------------------------------------------------------------
\* Configure as a function of its argument: the driver is constructed and
\* Configure is called with one timeout and then with another.

InitCfg ==
    /\ pc = "run"
    /\ wdreset = FALSE
    /\ resetCause = "poweron"
    /\ iwdg = IwdgReset
    /\ op = "Watchdog"
    /\ writes = <<>>
    /\ call = NoCall
    /\ ret = FALSE
    /\ gap = 0
    /\ nService = 0
    /\ pending \in {<<a, b>> : a \in Timeouts, b \in Timeouts}
    /\ prev = NoCall

ConfigurePending ==
    /\ pending # <<>>
    /\ Configure(Head(pending))
    /\ pending' = Tail(pending)
    /\ prev' = call

NextCfg == ConfigurePending

SpecCfg == InitCfg /\ [][NextCfg]_vars

\* ------------------------------------------------------------------------
\* Arithmetic of the claims: exact, in LsiFreq cycles.

\* floor and ceiling of timeout * LsiFreq for a timeout n >= 0.
FloorCycles(n) == ((n \div Den) * LsiFreq) + (((n % Den) * LsiFreq) \div Den)

CeilCycles(n) ==
    FloorCycles(n) + (IF ((n % Den) * LsiFreq) % Den = 0 THEN 0 ELSE 1)

\* timeout * (LsiFreq / p) < Bound(p) with the exact quotient LsiFreq / p:
\* timeout * LsiFreq < Bound(p) * p, and the right side is an integer.
BelowExact(n, p) == FloorCycles(n) < Bound(p) * p

\* The smallest prescaler whose bound holds with the exact quotient, and 256
\* when none does.
ExactPrescaler(n) ==
    LET ok == {i \in 1..(Len(Prescalers) - 1) : BelowExact(n, Prescalers[i])}
    IN  IF ok = {} THEN Prescalers[Len(Prescalers)]
        ELSE Prescalers[CHOOSE i \in ok : \A j \in ok : i <= j]

\* The conversion of the call gave a reload that fits the 12-bit counter.
Fits(c) == c.converted.hi = 0 /\ c.converted.lo <= CounterMax

\* The call chose its prescaler by a comparison of the chain, not by the
\* else branch.
NoFallback(c) == c.Prescaler # Prescalers[Len(Prescalers)]

\* ------------------------------------------------------------------------
\* Claims.

\* C1: for every positive timeout, the value Configure writes to the reload
\* register lies in [0, 0x0FFF].
C1_ReloadInRange ==
    (op = "Configure" /\ call.timeout > 0) =>
        \A i \in 1..Len(writes) :
            writes[i].reg = "RLR" => writes[i].val \in 0..CounterMax

\* C2: for every positive timeout, Configure chooses the smallest prescaler
\* whose count timeout * (45000 / p), with the exact quotient, is strictly
\* below its bound, and 256 only when no smaller prescaler satisfies it.
C2_SmallestPrescaler ==
    (op = "Configure" /\ call.timeout > 0) =>
        call.Prescaler = ExactPrescaler(call.timeout)

\* C3: for every positive timeout whose computed reload fits in 0x0FFF, the
\* achievable timeout (p * reload) / 45000 is at most the timeout plus one
\* prescaler tick p / 45000 and at least the timeout minus p / 45000.
C3_AchievableWithinOneTick ==
    (op = "Configure" /\ call.timeout > 0 /\ Fits(call)) =>
        /\ call.Calculated - call.Prescaler <= FloorCycles(call.timeout)
        /\ call.Calculated + call.Prescaler >= CeilCycles(call.timeout)

\* C4: for two positive timeouts t1 < t2, both realizable without the
\* fallback, the product reload * prescaler programmed for t2 is at least
\* the product programmed for t1.
C4_Monotone ==
    (/\ op = "Configure"
     /\ prev.Prescaler # 0
     /\ 0 < prev.timeout
     /\ prev.timeout < call.timeout
     /\ Fits(prev) /\ NoFallback(prev)
     /\ Fits(call) /\ NoFallback(call)) =>
        call.Calculated >= prev.Calculated

\* C5: after Configure(t) the timer is armed with the countdown at the full
\* reload value; the watchdog resets the system only when the time since
\* the last reload of the counter has reached the achievable timeout
\* (p * reload) / 45000, and once it has reached it the reset is due.
C5_ResetExactlyAtTimeout ==
    (call.Prescaler # 0 /\ call.timeout > 0) =>
        /\ op = "Configure" => iwdg.started /\ iwdg.CNT = iwdg.RLR
        /\ op = "WatchdogReset" => gap >= call.Calculated
        /\ (pc = "run" /\ gap >= call.Calculated) => Expired

\* C6: WatchdogCausedReset() returns true for a driver constructed after a
\* reset that the watchdog caused, and false after any other reset or
\* power-on.
C6_CapturesResetCause ==
    op = "WatchdogCausedReset" => (ret = (resetCause = "watchdog"))

\* C7: Configure with a timeout of zero or less is rejected before touching
\* the hardware: it makes no register write and leaves the timer unarmed.
C7_NonPositiveRejected ==
    (op = "Configure" /\ call.timeout <= 0) =>
        writes = <<>> /\ ~iwdg.started

\* C8: a Service() call issues the single key-register write of the kick
\* and leaves the prescaler register and the reload register as they were.
C8_ServiceKeepsConfiguration ==
    [][op' = "Service" =>
          /\ writes' = <<Write("KR", KeyReload)>>
          /\ iwdg'.PR = iwdg.PR
          /\ iwdg'.RLR = iwdg.RLR]_vars

\* C8 witness: Service has been called twice in a row on a timer that
\* Configure armed with a positive timeout.
C8_Witness ==
    /\ op = "Service"
    /\ nService >= 2
    /\ call.timeout > 0
    /\ iwdg.started
    /\ iwdg.CNT = iwdg.RLR

\* C9: within the life of one driver object no operation writes wdreset, and
\* every WatchdogCausedReset() call returns that one value.
C9_ResetCauseFixed ==
    [][(pc = "run" /\ pc' = "run") =>
          /\ wdreset' = wdreset
          /\ op' = "WatchdogCausedReset" => ret' = wdreset]_vars

\* C9 witness: WatchdogCausedReset() is called after Configure and Service
\* have been called on the same object.
C9_Witness ==
    /\ op = "WatchdogCausedReset"
    /\ call.Prescaler # 0
    /\ nService >= 1
    /\ ret = wdreset

\* C10: a Configure call with a positive timeout writes, in this order, the
\* unlock key, the prescaler selector, the reload value, the re-lock key
\* writes and last one kick; no unlock follows the first write, and the
\* countdown starts from the reload value just programmed.
C10_WriteOrder ==
    (op = "Configure" /\ call.timeout > 0) =>
        LET n == Len(writes) IN
        /\ n >= 5
        /\ writes[1] = Write("KR", KeyUnlock)
        /\ writes[2] = Write("PR", call.PrescalerCode)
        /\ writes[3] = Write("RLR", call.ReloadValue)
        /\ \A i \in 4..(n - 1) :
              writes[i].reg = "KR" /\ writes[i].val # KeyUnlock
        /\ writes[n] = Write("KR", KeyReload)
        /\ iwdg.started
        /\ iwdg.PR = call.PrescalerCode
        /\ iwdg.CNT = iwdg.RLR
        /\ iwdg.RLR = call.ReloadValue % (CounterMax + 1)

\* C10 witness: Configure has run with a positive timeout for which the
\* chain chose prescaler 16.
C10_Witness ==
    /\ op = "Configure"
    /\ call.timeout > 0
    /\ call.Prescaler = 16
    /\ Len(writes) = 6

====
